---- MODULE Spec2Model ----
(***************************************************************************)
(* Model of process_research_query (src/app.py): the four-stage research   *)
(* pipeline (planning, search, synthesis, finalization) with its error     *)
(* aggregation and fallbacks.                                              *)
(*                                                                         *)
(* Text is a sequence of one-character strings (longer literals of the     *)
(* code's templates are kept as single tokens), so that split, strip,      *)
(* startswith, slicing and concatenation are computed as Python does.      *)
(***************************************************************************)
EXTENDS Integers, Sequences, FiniteSets, TLC

VARIABLES
    pc,                 \* position of the invocation in process_research_query
    query,              \* the argument
    planning_response,  \* text returned by the planning call
    research_plan,      \* result["research_plan"]
    extracted_info,     \* result["extracted_info"]
    final_answer,       \* result["final_answer"]
    errors,             \* result["errors"]
    all_search_results, \* the local list of raw hits
    qi,                 \* index of the next sub-question of the search loop
    synthesis_response, \* the draft returned by the synthesis call
    gemini_calls,       \* the call_gemini invocations made so far, in order
    search_calls        \* the tavily_tool.invoke invocations made so far, in order

vars == <<pc, query, planning_response, research_plan, extracted_info, final_answer,
          errors, all_search_results, qi, synthesis_response, gemini_calls, search_calls>>

----------------------------------------------------------------------------
(* Bounds and program constants *)

MaxLines == 3          \* lines of a planning text drawn for the plan parser

SearchLimit == 3       \* research_plan[:3]
ContextSources == 5    \* extracted_info[:5]
ContextChars == 500    \* info['content'][:500]
BasicSources == 4      \* extracted_info[:4]
BasicChars == 300      \* info['content'][:300]

----------------------------------------------------------------------------
(* Python string and list primitives *)

Min(a, b) == IF a < b THEN a ELSE b

\* s[:n]
Take(s, n) == SubSeq(s, 1, Min(n, Len(s)))

\* s[n:]
Drop(s, n) == SubSeq(s, Min(n, Len(s)) + 1, Len(s))

Whitespace == {" ", "\t"}

RECURSIVE LStrip(_)
LStrip(s) == IF s # <<>> /\ Head(s) \in Whitespace THEN LStrip(Tail(s)) ELSE s

RECURSIVE RStrip(_)
RStrip(s) ==
    IF s # <<>> /\ s[Len(s)] \in Whitespace THEN RStrip(SubSeq(s, 1, Len(s) - 1)) ELSE s

\* str.strip()
Strip(s) == RStrip(LStrip(s))

\* str.startswith(p)
StartsWith(s, p) == Len(s) >= Len(p) /\ SubSeq(s, 1, Len(p)) = p

\* str.split("\n"): always at least one piece
RECURSIVE SplitLines(_)
SplitLines(s) ==
    IF \E i \in 1..Len(s) : s[i] = "\n"
    THEN LET i == CHOOSE k \in 1..Len(s) : s[k] = "\n" /\ \A j \in 1..(k - 1) : s[j] # "\n"
         IN  <<SubSeq(s, 1, i - 1)>> \o SplitLines(SubSeq(s, i + 1, Len(s)))
    ELSE <<s>>

\* str(i) for the small source numbers the templates print
Digits == <<"1", "2", "3", "4", "5", "6", "7", "8", "9">>
IntStr(i) == <<Digits[i]>>

----------------------------------------------------------------------------
(* Plan parser, lines 208-222 *)

Prefixes == << <<"1", ".">>, <<"2", ".">>, <<"3", ".">>, <<"4", ".">>, <<"5", ".">>,
               <<"-", " ">> >>

\* [line.strip() for line in planning_response.split("\n") if line.strip()]
PlanLines(text) ==
    LET raw == SplitLines(text)
        stripped == [i \in 1..Len(raw) |-> Strip(raw[i])]
    IN  SelectSeq(stripped, LAMBDA l : l # <<>>)

\* any(line.startswith(prefix) for prefix in [...])
HasPrefix(line) == \E k \in 1..Len(Prefixes) : StartsWith(line, Prefixes[k])

\* the inner for loop: the first prefix that matches is cut off, then strip()
CleanLine(line) ==
    LET k == CHOOSE n \in 1..Len(Prefixes) :
                 /\ StartsWith(line, Prefixes[n])
                 /\ \A m \in 1..(n - 1) : ~StartsWith(line, Prefixes[m])
    IN  Strip(Drop(line, Len(Prefixes[k])))

\* variant: the loop keeps the lines that carry no marker as items too
RECURSIVE ParseLinesKeepsAll(_)
ParseLinesKeepsAll(lines) ==
    IF lines = <<>> THEN <<>>
    ELSE <<IF HasPrefix(Head(lines)) THEN CleanLine(Head(lines)) ELSE Head(lines)>>
         \o ParseLinesKeepsAll(Tail(lines))

\* the for loop over plan_lines
RECURSIVE ParseLines(_)
ParseLines(lines) ==
    IF lines = <<>> THEN <<>>
    ELSE (IF HasPrefix(Head(lines)) THEN <<CleanLine(Head(lines))>> ELSE <<>>)
         \o ParseLines(Tail(lines))

\* variant: no fallback to the query
ParsePlanNoFallback(text, q) == ParseLines(PlanLines(text))

\* if not research_plan: research_plan = [query]
ParsePlan(text, q) ==
    LET plan == ParseLines(PlanLines(text))
    IN  IF plan = <<>> THEN <<q>> ELSE plan

----------------------------------------------------------------------------
(* Inputs: the query, and what the two providers can answer *)

Q1 == <<"w", "h", "y">>
Q2 == <<"1", ".", " ", "h", "o", "w">>
Queries == {Q1, Q2}

\* contents around the two truncation lengths
ShortContent == <<"f", "a", "c", "t">>
LongContent ==
    [i \in 1..(ContextChars + 1) |->
        IF i <= BasicChars THEN "a" ELSE IF i <= ContextChars THEN "b" ELSE "c"]

\* provider hits: dictionaries, some without every key ...
HitA == [title |-> <<"A">>, url |-> <<"u", "/", "a">>, content |-> ShortContent, score |-> 9]
HitB == [title |-> <<"B">>, url |-> <<"u", "/", "b">>, content |-> LongContent, score |-> 5]
HitC == [url |-> <<"u", "/", "c">>]
\* ... and an element that is no dictionary (a character of a string reply)
NonDict == [nondict |-> TRUE]

\* what one tavily_tool.invoke call can return
Replies == { <<>>, <<HitA, HitB, HitC>>, <<HitB, HitA>>, <<NonDict>> }

SearchFaults == { <<"r", "a", "t", "e">> }
SetupFaults == { <<"n", "o", " ", "k", "e", "y">> }
GeminiFaults == { <<"Q", "U", "O", "T", "A">> }

\* texts the model can return for the synthesis and the finalization prompt
Drafts == { <<"draft [Source 1]">> }
Finals == { <<"final [Source 1]">>, <<"draft [Source 1]">> }

\* text.join of lines with "\n"
RECURSIVE JoinLines(_)
JoinLines(ls) ==
    IF ls = <<>> THEN <<>>
    ELSE IF Len(ls) = 1 THEN ls[1]
    ELSE ls[1] \o <<"\n">> \o JoinLines(Tail(ls))

NumberedList4 ==
    JoinLines(<< <<"1", ".", " ", "a">>, <<"2", ".", " ", "b">>,
                 <<"3", ".", " ", "c">>, <<"4", ".", " ", "d">> >>)

\* planning texts fed to the whole pipeline
PipelineTexts ==
    { NumberedList4,
      JoinLines(<< <<"p", "l", "a", "n", ":">>, <<"-", " ", "a">>, <<" ", "2", ".", "a", " ">> >>),
      JoinLines(<< <<"5", ".", "b">>, <<>>, <<"-", "x">> >>),
      JoinLines(<< <<"6", ".", "a">>, <<"-", "b">>, <<" ", " ">> >>),
      <<"n", "o", " ", "l", "i", "s", "t">>,
      <<>> }

\* lines the plan parser is exercised on
ParserLineSet ==
    { <<"1", ".", " ", "a">>,        \* numbered item
      <<" ", "2", ".", "b", "\t">>,   \* indented, trailing whitespace
      <<"-", " ", "c">>,              \* bullet
      <<"-", "d">>,                   \* dash without the blank: no marker
      <<"6", ".", "e">>,              \* ordinal outside 1..5: no marker
      <<"3", ".">>,                   \* marker alone
      <<"5", ".", "-", " ", "a">>,    \* marker followed by another marker
      <<"x", " ", "y">>,              \* prose
      <<" ", " ">>,                   \* blank
      <<>> }                          \* empty

RECURSIVE SeqsUpTo(_, _)
SeqsUpTo(S, n) ==
    IF n = 0 THEN { <<>> }
    ELSE LET shorter == SeqsUpTo(S, n - 1)
         IN  shorter \cup { Append(s, x) : s \in { t \in shorter : Len(t) = n - 1 }, x \in S }

ParserTexts == { JoinLines(ls) : ls \in SeqsUpTo(ParserLineSet, MaxLines) }

----------------------------------------------------------------------------
(* extract_relevant_info, lines 152-166 *)

IsDict(h) == "nondict" \notin DOMAIN h

\* dict.get(key, default)
Get(h, key, default) == IF key \in DOMAIN h THEN h[key] ELSE default

\* one record per hit, in order; times[i] is datetime.now() at the i-th hit
ExtractRelevantInfo(results, times) ==
    [i \in 1..Len(results) |->
        [title |-> Get(results[i], "title", <<>>),
         content |-> Get(results[i], "content", <<>>),
         url |-> Get(results[i], "url", <<>>),
         relevance_score |-> Get(results[i], "score", 0),
         extracted_at |-> times[i]]]

\* result.get raises on an element that is no dictionary
ExtractRaises(results) == \E i \in 1..Len(results) : ~IsDict(results[i])

\* the clock readings of one extraction: non-decreasing over the hits
ClockReadings(n) == { [i \in 1..n |-> IF i <= k THEN 1 ELSE 2] : k \in 0..n }

----------------------------------------------------------------------------
(* Prompts, messages and the fallback answer *)

PlanningPrompt(q) == <<"planning prompt: ">> \o q

\* lines 256-261
RECURSIVE ContextFrom(_, _)
ContextFrom(info, i) ==
    IF i > Len(info) \/ i > ContextSources THEN <<>>
    ELSE <<"\n--- Source ">> \o IntStr(i) \o <<" ---\n">>
         \o <<"Title: ">> \o info[i].title \o <<"\n">>
         \o <<"URL: ">> \o info[i].url \o <<"\n">>
         \o <<"Content: ">> \o Take(info[i].content, ContextChars) \o <<"...\n">>
         \o ContextFrom(info, i + 1)

SynthesisPrompt(q, info) == <<"synthesis prompt: ">> \o q \o <<"sources: ">> \o ContextFrom(info, 1)

FinalizePrompt(q, draft) == <<"finalize prompt: ">> \o q \o <<"draft: ">> \o draft

\* call_gemini wraps every failure, line 149
GeminiError(cause) == <<"Gemini API error: ">> \o cause

PlanningError(msg) == <<"Planning error: ">> \o msg
SearchError(question, msg) == <<"Search error for '">> \o question \o <<"': ">> \o msg
SetupError(msg) == <<"Tavily search setup error: ">> \o msg
SynthesisError(msg) == <<"Synthesis/Finalization error: ">> \o msg
NoResultsError == <<"No search results found">>
GeneralError(msg) == <<"General error: ">> \o msg

NoInfoMessage == <<"Unable to gather sufficient information for this query. Please try rephrasing your question or check if the topic exists online.">>

\* lines 310-315
RECURSIVE BasicSections(_, _)
BasicSections(info, i) ==
    IF i > Len(info) \/ i > BasicSources THEN <<>>
    ELSE <<"## Source ">> \o IntStr(i) \o <<": ">> \o info[i].title \o <<"\n">>
         \o <<"**URL:** ">> \o info[i].url \o <<"\n\n">>
         \o Take(info[i].content, BasicChars) \o <<"...\n\n">>
         \o <<"---\n\n">>
         \o BasicSections(info, i + 1)

BasicAnswer(q, info) == <<"# Research Results for: ">> \o q \o <<"\n\n">> \o BasicSections(info, 1)

\* variant: the except branch publishes the draft variable as it stands
AnswerIsDraft(q, info, draft) == draft

\* the answer the except branch of lines 306-316 leaves, whichever call failed
AnswerOnModelFailure(q, info, draft) == BasicAnswer(q, info)

----------------------------------------------------------------------------
(* process_research_query, lines 180-324 *)

GeminiCall(agent, prompt, ok, text) ==
    [agent |-> agent, prompt |-> prompt, ok |-> ok, text |-> text]
SearchCall(question, ok, hits) == [question |-> question, ok |-> ok, hits |-> hits]

\* variant: the loop runs over the whole plan
SearchedAll(plan) == plan

\* result["research_plan"][:3]
Searched(plan) == Take(plan, SearchLimit)

\* variant: the synthesis branch is taken whatever the evidence
HasEvidenceAlways(info) == TRUE

\* if extracted_info:
HasEvidence(info) == info # <<>>

\* lines 182-188
Init ==
    /\ pc = "start"
    /\ query \in Queries
    /\ planning_response = <<>>
    /\ research_plan = <<>>
    /\ extracted_info = <<>>
    /\ final_answer = <<>>
    /\ errors = <<>>
    /\ all_search_results = <<>>
    /\ qi = 1
    /\ synthesis_response = <<>>
    /\ gemini_calls = <<>>
    /\ search_calls = <<>>

\* lines 192-224: the planning call returns a text, which is parsed
PlanningOk(texts) ==
    /\ pc = "start"
    /\ \E t \in texts :
        /\ planning_response' = t
        /\ research_plan' = ParsePlan(t, query)
    /\ gemini_calls' = Append(gemini_calls, GeminiCall("planning", PlanningPrompt(query), TRUE, planning_response'))
    /\ pc' = "planned"
    /\ UNCHANGED <<query, extracted_info, final_answer, errors, all_search_results, qi,
                   synthesis_response, search_calls>>

\* lines 226-228: the planning call raises
PlanningFail ==
    /\ pc = "start"
    /\ \E cause \in GeminiFaults :
        errors' = Append(errors, PlanningError(GeminiError(cause)))
    /\ research_plan' = <<query>>
    /\ gemini_calls' = Append(gemini_calls, GeminiCall("planning", PlanningPrompt(query), FALSE, <<>>))
    /\ pc' = "planned"
    /\ UNCHANGED <<query, planning_response, extracted_info, final_answer, all_search_results,
                   qi, synthesis_response, search_calls>>

\* lines 232-233: the search tool is built
SearchSetupOk ==
    /\ pc = "planned"
    /\ all_search_results' = <<>>
    /\ qi' = 1
    /\ pc' = "searching"
    /\ UNCHANGED <<query, planning_response, research_plan, extracted_info, final_answer,
                   errors, synthesis_response, gemini_calls, search_calls>>

\* variant: the setup handler starts the error list afresh
SearchSetupFailResets ==
    /\ pc = "planned"
    /\ \E cause \in SetupFaults : errors' = <<SetupError(cause)>>
    /\ all_search_results' = <<>>
    /\ pc' = "searched"
    /\ UNCHANGED <<query, planning_response, research_plan, extracted_info, final_answer,
                   qi, synthesis_response, gemini_calls, search_calls>>

\* lines 244-246: building the search tool raises
SearchSetupFail ==
    /\ pc = "planned"
    /\ \E cause \in SetupFaults : errors' = Append(errors, SetupError(cause))
    /\ all_search_results' = <<>>
    /\ pc' = "searched"
    /\ UNCHANGED <<query, planning_response, research_plan, extracted_info, final_answer,
                   qi, synthesis_response, gemini_calls, search_calls>>

\* the for statement of line 236 after one more iteration
AfterIteration == IF qi + 1 > Len(Searched(research_plan)) THEN "searched" ELSE "searching"

\* variant: the hits of a call replace the list instead of extending it
SearchOkOverwrites ==
    /\ pc = "searching"
    /\ qi <= Len(Searched(research_plan))
    /\ \E reply \in Replies :
        /\ all_search_results' = reply
        /\ search_calls' = Append(search_calls, SearchCall(research_plan[qi], TRUE, reply))
    /\ qi' = qi + 1
    /\ pc' = AfterIteration
    /\ UNCHANGED <<query, planning_response, research_plan, extracted_info, final_answer,
                   errors, synthesis_response, gemini_calls>>

\* lines 238-240: one search call returns
SearchOk ==
    /\ pc = "searching"
    /\ qi <= Len(Searched(research_plan))
    /\ \E reply \in Replies :
        /\ all_search_results' = all_search_results \o reply
        /\ search_calls' = Append(search_calls, SearchCall(research_plan[qi], TRUE, reply))
    /\ qi' = qi + 1
    /\ pc' = AfterIteration
    /\ UNCHANGED <<query, planning_response, research_plan, extracted_info, final_answer,
                   errors, synthesis_response, gemini_calls>>

\* variant: a raising search call ends the loop
SearchFailAborts ==
    /\ pc = "searching"
    /\ qi <= Len(Searched(research_plan))
    /\ \E cause \in SearchFaults :
        errors' = Append(errors, SearchError(research_plan[qi], cause))
    /\ search_calls' = Append(search_calls, SearchCall(research_plan[qi], FALSE, <<>>))
    /\ qi' = qi + 1
    /\ pc' = "searched"
    /\ UNCHANGED <<query, planning_response, research_plan, extracted_info, final_answer,
                   all_search_results, synthesis_response, gemini_calls>>

\* lines 241-242: one search call raises
SearchFail ==
    /\ pc = "searching"
    /\ qi <= Len(Searched(research_plan))
    /\ \E cause \in SearchFaults :
        errors' = Append(errors, SearchError(research_plan[qi], cause))
    /\ search_calls' = Append(search_calls, SearchCall(research_plan[qi], FALSE, <<>>))
    /\ qi' = qi + 1
    /\ pc' = AfterIteration
    /\ UNCHANGED <<query, planning_response, research_plan, extracted_info, final_answer,
                   all_search_results, synthesis_response, gemini_calls>>

\* lines 249-250
ExtractOk ==
    /\ pc = "searched"
    /\ ~ExtractRaises(all_search_results)
    /\ \E times \in ClockReadings(Len(all_search_results)) :
        extracted_info' = ExtractRelevantInfo(all_search_results, times)
    /\ pc' = "extracted"
    /\ UNCHANGED <<query, planning_response, research_plan, final_answer, errors,
                   all_search_results, qi, synthesis_response, gemini_calls, search_calls>>

\* variant: no outermost handler, the exception leaves the function
ExtractFailPropagates ==
    /\ pc = "searched"
    /\ ExtractRaises(all_search_results)
    /\ pc' = "raised"
    /\ UNCHANGED <<query, planning_response, research_plan, extracted_info, final_answer,
                   errors, all_search_results, qi, synthesis_response, gemini_calls,
                   search_calls>>

\* line 249 raises; lines 321-324: the outermost handler
ExtractFail ==
    /\ pc = "searched"
    /\ ExtractRaises(all_search_results)
    /\ errors' = Append(errors, GeneralError(<<"'str' object has no attribute 'get'">>))
    /\ pc' = "done"
    /\ UNCHANGED <<query, planning_response, research_plan, extracted_info, final_answer,
                   all_search_results, qi, synthesis_response, gemini_calls, search_calls>>

\* variant: the else branch records the error and sets no answer
NoResultsWithoutAnswer ==
    /\ pc = "extracted"
    /\ ~HasEvidence(extracted_info)
    /\ errors' = Append(errors, NoResultsError)
    /\ pc' = "done"
    /\ UNCHANGED <<query, planning_response, research_plan, extracted_info, final_answer,
                   all_search_results, qi, synthesis_response, gemini_calls, search_calls>>

\* lines 317-319
NoResults ==
    /\ pc = "extracted"
    /\ ~HasEvidence(extracted_info)
    /\ errors' = Append(errors, NoResultsError)
    /\ final_answer' = NoInfoMessage
    /\ pc' = "done"
    /\ UNCHANGED <<query, planning_response, research_plan, extracted_info,
                   all_search_results, qi, synthesis_response, gemini_calls, search_calls>>

\* lines 255-283: the synthesis call returns a draft
SynthesisOk ==
    /\ pc = "extracted"
    /\ HasEvidence(extracted_info)
    /\ \E d \in Drafts : synthesis_response' = d
    /\ gemini_calls' = Append(gemini_calls,
            GeminiCall("synthesis", SynthesisPrompt(query, extracted_info), TRUE,
                       synthesis_response'))
    /\ pc' = "finalizing"
    /\ UNCHANGED <<query, planning_response, research_plan, extracted_info, final_answer,
                   errors, all_search_results, qi, search_calls>>

\* line 283 raises; lines 306-316
SynthesisFail ==
    /\ pc = "extracted"
    /\ HasEvidence(extracted_info)
    /\ \E cause \in GeminiFaults :
        errors' = Append(errors, SynthesisError(GeminiError(cause)))
    /\ gemini_calls' = Append(gemini_calls,
            GeminiCall("synthesis", SynthesisPrompt(query, extracted_info), FALSE, <<>>))
    /\ final_answer' = AnswerOnModelFailure(query, extracted_info, synthesis_response)
    /\ pc' = "done"
    /\ UNCHANGED <<query, planning_response, research_plan, extracted_info,
                   all_search_results, qi, synthesis_response, search_calls>>

\* lines 286-304: the finalization call returns the report
FinalizeOk ==
    /\ pc = "finalizing"
    /\ \E f \in Finals : final_answer' = f
    /\ gemini_calls' = Append(gemini_calls,
            GeminiCall("finalization", FinalizePrompt(query, synthesis_response), TRUE,
                       final_answer'))
    /\ pc' = "done"
    /\ UNCHANGED <<query, planning_response, research_plan, extracted_info, errors,
                   all_search_results, qi, synthesis_response, search_calls>>

\* line 303 raises; lines 306-316
FinalizeFail ==
    /\ pc = "finalizing"
    /\ \E cause \in GeminiFaults :
        errors' = Append(errors, SynthesisError(GeminiError(cause)))
    /\ gemini_calls' = Append(gemini_calls,
            GeminiCall("finalization", FinalizePrompt(query, synthesis_response), FALSE, <<>>))
    /\ final_answer' = AnswerOnModelFailure(query, extracted_info, synthesis_response)
    /\ pc' = "done"
    /\ UNCHANGED <<query, planning_response, research_plan, extracted_info,
                   all_search_results, qi, synthesis_response, search_calls>>

Next ==
    \/ PlanningOk(PipelineTexts)
    \/ PlanningFail
    \/ SearchSetupOk
    \/ SearchSetupFail
    \/ SearchOk
    \/ SearchFail
    \/ ExtractOk
    \/ ExtractFail
    \/ NoResults
    \/ SynthesisOk
    \/ SynthesisFail
    \/ FinalizeOk
    \/ FinalizeFail

Spec == Init /\ [][Next]_vars

\* every external call returns or raises, and the sleep of line 240 ends
FairSpec == Spec /\ WF_vars(Next)

\* the planning stage alone, on every text of ParserTexts
ParserNext ==
    \/ PlanningOk(ParserTexts)
    \/ PlanningFail

ParserSpec == Init /\ [][ParserNext]_vars

----------------------------------------------------------------------------
(* Vocabulary of the properties *)

Returned == pc = "done"

Count(seq, P(_)) == Len(SelectSeq(seq, P))

IsSynthesisError(e) == StartsWith(e, <<"Synthesis/Finalization error: ">>)
IsGeneralError(e) == StartsWith(e, <<"General error: ">>)
IsPlanningError(e) == StartsWith(e, <<"Planning error: ">>)
IsSetupError(e) == StartsWith(e, <<"Tavily search setup error: ">>)
IsSearchError(e) == StartsWith(e, <<"Search error for '">>)
Names(e, question) == StartsWith(e, <<"Search error for '">> \o question \o <<"': ">>)

Made(agent) == \E i \in 1..Len(gemini_calls) : gemini_calls[i].agent = agent
Succeeded(agent) ==
    \E i \in 1..Len(gemini_calls) : gemini_calls[i].agent = agent /\ gemini_calls[i].ok
Failed(agent) ==
    \E i \in 1..Len(gemini_calls) : gemini_calls[i].agent = agent /\ ~gemini_calls[i].ok

\* the search stage is over
AfterSearch == pc \in {"searched", "extracted", "finalizing", "done"}

----------------------------------------------------------------------------
(* C1: when the finalization call fails after the synthesis call succeeded, *)
(* exactly one synthesis/finalization error is recorded and the returned    *)
(* final_answer is the draft of the synthesis call, verbatim.               *)
C1_DraftKeptWhenFinalizationFails ==
    (Returned /\ Succeeded("synthesis") /\ Failed("finalization")) =>
        /\ Count(errors, IsSynthesisError) = 1
        /\ final_answer = synthesis_response
        /\ final_answer # <<>>

(* C2: when the evidence is empty after the search stage, the answer is the *)
(* fixed insufficient-information message, 'No search results found' is     *)
(* recorded, and the planning call is the only model call of the invocation.*)
C2_NoEvidenceShortCircuit ==
    (AfterSearch /\ all_search_results = <<>>) =>
        /\ ~Made("synthesis") /\ ~Made("finalization")
        /\ Len(gemini_calls) = 1 /\ gemini_calls[1].agent = "planning"
        /\ Returned =>
            /\ final_answer = NoInfoMessage
            /\ extracted_info = <<>>
            /\ errors # <<>> /\ errors[Len(errors)] = NoResultsError
            /\ Count(errors, LAMBDA e : e = NoResultsError) = 1

\* empty evidence after three searches, one that raised and one that found nothing
C2_Witness ==
    /\ Returned /\ all_search_results = <<>> /\ final_answer = NoInfoMessage
    /\ Len(search_calls) = SearchLimit
    /\ \E i \in 1..Len(search_calls) : ~search_calls[i].ok
    /\ \E i \in 1..Len(search_calls) : search_calls[i].ok

\* the digest the claim describes: a header naming the query, then one numbered
\* section per leading evidence record with its title, URL and cut content
DigestSection(info, i) ==
    <<"## Source ", Digits[i], ": ">> \o info[i].title \o <<"\n", "**URL:** ">> \o info[i].url
        \o <<"\n\n">> \o SubSeq(info[i].content, 1, Min(Len(info[i].content), BasicChars))
        \o <<"...\n\n", "---\n\n">>

RECURSIVE DigestUpTo(_, _)
DigestUpTo(info, n) ==
    IF n = 0 THEN <<>> ELSE DigestUpTo(info, n - 1) \o DigestSection(info, n)

Digest(q, info) ==
    <<"# Research Results for: ">> \o q \o <<"\n\n">>
        \o DigestUpTo(info, Min(Len(info), BasicSources))

(* C3: when the synthesis call fails on non-empty evidence, final_answer is *)
(* the non-empty digest determined by the query and the evidence alone, one *)
(* synthesis error is recorded and no finalization call is made.            *)
C3_DigestWhenSynthesisFails ==
    (Returned /\ Failed("synthesis")) =>
        /\ extracted_info # <<>>
        /\ final_answer # <<>>
        /\ final_answer = Digest(query, extracted_info)
        /\ Count(errors, IsSynthesisError) = 1
        /\ IsSynthesisError(errors[Len(errors)])
        /\ ~Made("finalization")

\* the synthesis call failed on more evidence than the digest shows, with a long content
C3_Witness ==
    /\ Returned /\ Failed("synthesis")
    /\ Len(extracted_info) > BasicSources
    /\ \E i \in 1..BasicSources : Len(extracted_info[i].content) > BasicChars

----------------------------------------------------------------------------
(* Search calls and the errors they leave *)

RaisedCalls == SelectSeq(search_calls, LAMBDA c : ~c.ok)
SearchErrors == SelectSeq(errors, IsSearchError)

RECURSIVE HitsOfReturned(_)
HitsOfReturned(calls) ==
    IF calls = <<>> THEN <<>>
    ELSE (IF Head(calls).ok THEN Head(calls).hits ELSE <<>>) \o HitsOfReturned(Tail(calls))

\* how many search calls for this text raised
RaisedFor(question) ==
    Cardinality({k \in 1..Len(search_calls) :
                    ~search_calls[k].ok /\ search_calls[k].question = question})

NamingCount(question) == Count(errors, LAMBDA e : Names(e, question))

----------------------------------------------------------------------------
\* the step appends a 'General error' entry
GeneralErrorStep ==
    /\ Len(errors') = Len(errors) + 1
    /\ IsGeneralError(errors'[Len(errors')])

(* C5: every invocation returns a Result whatever fails; an exception that  *)
(* escapes the inner handlers becomes a 'General error' entry, and the plan, *)
(* the evidence and the earlier errors stay as they were.                   *)
C5_AlwaysReturns ==
    /\ <>[]Returned
    /\ [][GeneralErrorStep =>
            /\ pc' = "done"
            /\ research_plan' = research_plan /\ research_plan # <<>>
            /\ extracted_info' = extracted_info
            /\ final_answer' = final_answer
            /\ SubSeq(errors', 1, Len(errors)) = errors]_vars

\* returned with a general error after a planning error
C5_Witness ==
    /\ Returned
    /\ Len(errors) >= 2
    /\ IsPlanningError(errors[1])
    /\ IsGeneralError(errors[Len(errors)])
    /\ research_plan = <<query>>

----------------------------------------------------------------------------
(* C6 as stated: a returned Result with errors never has an empty answer.   *)
C6_ErrorsNeverWithEmptyAnswer ==
    (Returned /\ errors # <<>>) => final_answer # <<>>

(* C6, amended: every catch site but the outermost appends a message and    *)
(* leaves a fallback; the outermost only appends 'General error'. A returned *)
(* Result with errors and no 'General error' entry has a non-empty answer,  *)
(* one with a 'General error' entry has the empty answer.                   *)
C6_FallbackAtInnerCatchSites ==
    /\ (pc # "start" /\ Failed("planning")) =>
            IsPlanningError(errors[1]) /\ research_plan = <<query>>
    /\ (AfterSearch /\ Count(errors, IsSetupError) > 0) =>
            all_search_results = <<>> /\ search_calls = <<>>
    /\ (Returned /\ (Failed("synthesis") \/ Failed("finalization"))) =>
            Count(errors, IsSynthesisError) = 1 /\ final_answer # <<>>
    /\ (Returned /\ errors # <<>> /\ Count(errors, IsGeneralError) = 0) =>
            final_answer # <<>>
    /\ (Returned /\ Count(errors, IsGeneralError) > 0) => final_answer = <<>>

\* errors of two inner catch sites, and an answer
C6_Witness ==
    /\ Returned
    /\ Failed("planning")
    /\ Count(errors, IsSearchError) = 1
    /\ errors[Len(errors)] = NoResultsError
    /\ final_answer = NoInfoMessage

----------------------------------------------------------------------------
IsPrefix(s, t) == Len(s) <= Len(t) /\ SubSeq(t, 1, Len(s)) = s

\* the stage an error message belongs to
StageRank(e) ==
    IF IsPlanningError(e) THEN 1
    ELSE IF IsSearchError(e) \/ IsSetupError(e) THEN 2
    ELSE IF IsSynthesisError(e) \/ e = NoResultsError THEN 3
    ELSE 4

\* positions of the plan whose search raised, ascending
RECURSIVE RaisedPositions(_)
RaisedPositions(n) ==
    IF n = 0 THEN <<>>
    ELSE RaisedPositions(n - 1) \o (IF search_calls[n].ok THEN <<>> ELSE <<n>>)

StageOrdered ==
    /\ \A i, j \in 1..Len(errors) : i < j => StageRank(errors[i]) <= StageRank(errors[j])
    /\ Count(errors, LAMBDA e : StageRank(e) = 1) <= 1
    /\ Count(errors, LAMBDA e : StageRank(e) = 3) <= 1
    /\ Count(errors, LAMBDA e : StageRank(e) = 4) <= 1
    /\ LET at == RaisedPositions(Len(search_calls))
       IN  /\ Len(SearchErrors) = Len(at)
           /\ \A k \in 1..Len(at) : Names(SearchErrors[k], research_plan[at[k]])

(* C7: the errors list only grows, each step keeping the previous list as a *)
(* prefix, and it is ordered by stage: planning, searches in plan order,    *)
(* no-results or synthesis/finalization, general.                           *)
C7_ErrorsOnlyGrow ==
    /\ [][IsPrefix(errors, errors')]_vars
    /\ []StageOrdered

\* three stages failed in turn and all three entries are there, in order
C7_Witness ==
    /\ Returned
    /\ Len(errors) = 3
    /\ IsPlanningError(errors[1])
    /\ IsSearchError(errors[2])
    /\ errors[3] = NoResultsError

----------------------------------------------------------------------------
(* Marker lines of a planning text, as the parser's contract words them *)

Markers == { <<"1", ".">>, <<"2", ".">>, <<"3", ".">>, <<"4", ".">>, <<"5", ".">>, <<"-", " ">> }

IsMarkerLine(l) == \E m \in Markers : StartsWith(Strip(l), m)

MarkerLines(text) == SelectSeq(SplitLines(text), IsMarkerLine)

\* item is what is left of the trimmed line after its marker, trimmed
DerivedFrom(item, l) ==
    LET sl == Strip(l)
    IN  \E m \in Markers :
            StartsWith(sl, m) /\ item = Strip(SubSeq(sl, Len(m) + 1, Len(sl)))

(* C8: once planning has finished research_plan is never empty; with zero   *)
(* marker lines, and when the planning call fails (one planning error is    *)
(* recorded), the plan is [query], so the search stage has a target.        *)
C8_PlanNeverEmpty ==
    (pc # "start") =>
        /\ research_plan # <<>>
        /\ Searched(research_plan) # <<>>
        /\ Failed("planning") =>
            /\ research_plan = <<query>>
            /\ Count(errors, IsPlanningError) = 1
            /\ IsPlanningError(errors[1])
        /\ (Succeeded("planning") /\ MarkerLines(planning_response) = <<>>) =>
            /\ research_plan = <<query>>
            /\ Count(errors, IsPlanningError) = 0
        /\ (AfterSearch /\ Count(errors, IsSetupError) = 0) => search_calls # <<>>

\* a planning text of several lines, none a marker line, and the query was searched
C8_Witness ==
    /\ Returned
    /\ Succeeded("planning")
    /\ Len(SplitLines(planning_response)) > 1
    /\ MarkerLines(planning_response) = <<>>
    /\ research_plan = <<query>>
    /\ search_calls # <<>> /\ search_calls[1].question = query

(* C9: a planning text with at least one marker line yields one item per    *)
(* marker line, the i-th item derived from the i-th marker line; the other  *)
(* lines yield nothing.                                                     *)
C9_OneItemPerMarkerLine ==
    (pc = "planned" /\ Succeeded("planning") /\ MarkerLines(planning_response) # <<>>) =>
        LET ml == MarkerLines(planning_response)
        IN  /\ Len(research_plan) = Len(ml)
            /\ \A i \in 1..Len(ml) : DerivedFrom(research_plan[i], ml[i])

\* two marker lines around a line that is none
C9_Witness ==
    /\ pc = "planned"
    /\ Len(MarkerLines(planning_response)) = 2
    /\ LET ls == SplitLines(planning_response)
       IN  /\ Len(ls) = 3
           /\ IsMarkerLine(ls[1]) /\ ~IsMarkerLine(ls[2]) /\ Strip(ls[2]) # <<>>
           /\ IsMarkerLine(ls[3])
    /\ Len(research_plan) = 2

----------------------------------------------------------------------------
\* no call of the invocation failed
NoCallFailed ==
    /\ \A i \in 1..Len(gemini_calls) : gemini_calls[i].ok
    /\ \A i \in 1..Len(search_calls) : search_calls[i].ok
    /\ search_calls # <<>>
    /\ Count(errors, IsSetupError) = 0
    /\ Count(errors, IsGeneralError) = 0

\* the planning text was the 4-line numbered list and every search returned 3 hits
Scenario ==
    /\ Returned
    /\ NoCallFailed
    /\ planning_response = NumberedList4
    /\ \A i \in 1..Len(search_calls) : Len(search_calls[i].hits) = 3

(* C10 as stated: with no failure the evidence holds the hits of every      *)
(* sub-question of the plan: 4 sub-questions with 3 hits each give 12       *)
(* records, no errors and the finalization text as the answer.              *)
C10_TwelveRecords ==
    Scenario =>
        /\ Len(research_plan) = 4
        /\ Len(extracted_info) = 12
        /\ errors = <<>>
        /\ final_answer = gemini_calls[Len(gemini_calls)].text /\ final_answer # <<>>

(* C10, amended: with no failure the evidence holds the hits of the first 3 *)
(* sub-questions of the plan, one record per hit, and errors is empty when  *)
(* there is a hit; the 4-line list gives 4 items, 3 hits for each searched  *)
(* sub-question give 9 records, no errors and the finalization text.        *)
C10_HitsOfSearchedPrefix ==
    /\ (Returned /\ NoCallFailed) =>
        /\ Len(search_calls) = Min(Len(research_plan), SearchLimit)
        /\ \A i \in 1..Len(search_calls) : search_calls[i].question = research_plan[i]
        /\ all_search_results = HitsOfReturned(search_calls)
        /\ Len(extracted_info) = Len(all_search_results)
        /\ \A i \in 1..Len(extracted_info) :
            /\ extracted_info[i].url = Get(all_search_results[i], "url", <<>>)
            /\ extracted_info[i].title = Get(all_search_results[i], "title", <<>>)
            /\ extracted_info[i].content = Get(all_search_results[i], "content", <<>>)
        /\ (all_search_results # <<>>) => errors = <<>>
    /\ Scenario =>
        /\ Len(research_plan) = 4
        /\ Len(extracted_info) = 9
        /\ errors = <<>>
        /\ gemini_calls[Len(gemini_calls)].agent = "finalization"
        /\ final_answer = gemini_calls[Len(gemini_calls)].text /\ final_answer # <<>>

\* the scenario of the claim, returned
C10_Witness ==
    /\ Scenario
    /\ Len(research_plan) = 4
    /\ Len(search_calls) = SearchLimit
    /\ Len(extracted_info) = 9

----------------------------------------------------------------------------
\* extract_relevant_info has run to its end
Extracted ==
    \/ pc \in {"extracted", "finalizing"}
    \/ Returned /\ Count(errors, IsGeneralError) = 0

\* a step makes at most one search call, for the next sub-question of the plan, and
\* none once a synthesis call has been made
OneSearchAtATime ==
    /\ \/ search_calls' = search_calls
       \/ /\ Len(search_calls') = Len(search_calls) + 1
          /\ SubSeq(search_calls', 1, Len(search_calls)) = search_calls
          /\ search_calls'[Len(search_calls')].question = research_plan[Len(search_calls')]
          /\ gemini_calls' = gemini_calls
    /\ Made("synthesis")' => search_calls' = search_calls

\* the calls made are those of a prefix of the plan of at most 3 sub-questions, each
\* made once, and the evidence is the hits of the returning ones, in that order
EvidenceInSearchOrder ==
    /\ Len(search_calls) <= SearchLimit
    /\ Len(search_calls) <= Len(research_plan)
    /\ \A i \in 1..Len(search_calls) : search_calls[i].question = research_plan[i]
    /\ all_search_results = HitsOfReturned(search_calls)
    /\ Extracted =>
        /\ Len(extracted_info) = Len(all_search_results)
        /\ \A i \in 1..Len(extracted_info) :
            /\ extracted_info[i].title = Get(all_search_results[i], "title", <<>>)
            /\ extracted_info[i].url = Get(all_search_results[i], "url", <<>>)
            /\ extracted_info[i].content = Get(all_search_results[i], "content", <<>>)
            /\ extracted_info[i].relevance_score = Get(all_search_results[i], "score", 0)

====
